---- MODULE Spec2Model ----
(***************************************************************************)
(* Model of the round-based number-placement contest of src/App.tsx,      *)
(* src/components/HostView.tsx and src/components/PlayerView.tsx.          *)
(*                                                                         *)
(* Every browser tab ("client") holds its own copy of the games list in    *)
(* React state; every setGames is followed by the effect that writes the   *)
(* whole list to the shared store, and the other clients read the store    *)
(* back asynchronously.  Each command handler validates against the        *)
(* issuing client's copy.                                                  *)
(*                                                                         *)
(* The ring (20 slots in the program) and the deck (40 cards) are scaled   *)
(* down to BoardSize and DeckSize; the round maximum is the board          *)
(* capacity.  Time is counted in units of 24 hours.                        *)
(***************************************************************************)
EXTENDS Integers, Sequences, FiniteSets, TLC

VARIABLES
    store,            \* the shared games list (localStorage key GAMES)
    games,            \* games[c]: the React state `games` of client c
    currentUser,      \* currentUser[c]: role of the logged-in user
    session,          \* session[c]: gameId, role, myTeamId
    selectedGameId,   \* selectedGameId[c]: game chosen in the JOIN tab
    pendingSelection, \* pendingSelection[c]: card index chosen in HostView
    now,              \* wall clock, in units of 24 hours
    lag,              \* lag[c]: saves to the store that c has not read yet
    staleWrites,      \* number of lists saved from a copy that had fallen
                      \* behind the store
    subscription,     \* subscription[c]: state of the Firebase listener
    isFirebaseUpdate, \* isFirebaseUpdate[c]: the ref isFirebaseUpdate.current
    pendingEffect,    \* pendingEffect[c][slice]: which setter call changed
                      \* the state slice whose sync effect has not run yet
    memberStore,      \* the shared members list (key MEMBERS, or the
                      \* remote members node)
    members,          \* members[c]: the React state `members` of client c
    memberId,         \* memberId[c]: currentUser.id while the role is MEMBER
    database,         \* database[c]: the module variable `database` of the
                      \* Firebase module loaded by client c
    lastCall          \* lastCall[c]: the last call of a function of the
                      \* Firebase module on client c and what it gave back

syncVars == <<subscription, isFirebaseUpdate, pendingEffect>>

memberVars == <<memberStore, members, memberId>>

firebaseVars == <<database, lastCall>>

vars == <<store, games, currentUser, session, selectedGameId,
          pendingSelection, now, lag, staleWrites, syncVars, memberVars,
          firebaseVars>>

----------------------------------------------------------------------------
(* Bounds *)

BoardSize == 2
DeckSize == 2
MaxNow == 1
MaxStaleWrites == 1
MaxLag == 1

Clients == {1, 2}
MockNames == {"samsung", "coke"}
NewNames == {"acme"}
GameNames == MockNames \cup NewNames
TeamCounts == {2}
Joinable == NewNames \cup {"samsung"}
MockScores == {<<12, 57>>}

----------------------------------------------------------------------------
(* Program constants *)

MaxRounds == BoardSize
MockStartedRound == (MaxRounds + 3) \div 4
MaxPlayers == 10
EndAfter == 1
DeleteAfter == 7

Null == -1
NoName == "none"
NoGame == [exists |-> FALSE]

PointTable_OffByOne == <<1, 3, 5, 7, 9, 11, 15, 20, 25, 30,
                         35, 40, 50, 60, 70, 85, 100, 150, 300, 300>>

PointTable_LastRepeated == <<0, 1, 3, 5, 7, 9, 11, 15, 20, 25,
                             30, 35, 40, 50, 60, 70, 85, 100, 150, 150>>

PointTable_WrongFourth == <<0, 1, 3, 2, 7, 9, 11, 15, 20, 25,
                            30, 35, 40, 50, 60, 70, 85, 100, 150, 300>>

PointTable == <<0, 1, 3, 5, 7, 9, 11, 15, 20, 25,
                30, 35, 40, 50, 60, 70, 85, 100, 150, 300>>

createFullDeck == [i \in 0..(DeckSize - 1) |-> ((i + 1) \div 2) + 1]

----------------------------------------------------------------------------
(* Scoring: maximal cyclic runs of filled slots *)

Filled(board, i) == board[i] # Null

Wrap(board, i) == ((i - 1) % Len(board)) + 1

RECURSIVE RunLen(_, _, _)
RunLen(board, i, k) ==
    IF k >= Len(board) \/ ~Filled(board, Wrap(board, i + k))
    THEN k
    ELSE RunLen(board, i, k + 1)

RunStarts(board) ==
    {i \in 1..Len(board) :
        Filled(board, i) /\ ~Filled(board, Wrap(board, i + Len(board) - 1))}

RECURSIVE SumPoints(_, _)
SumPoints(board, S) ==
    IF S = {} THEN 0
    ELSE LET i == CHOOSE x \in S : TRUE
         IN PointTable[RunLen(board, i, 0)] + SumPoints(board, S \ {i})

calculatePlayerScore(board) ==
    IF \A i \in 1..Len(board) : Filled(board, i)
    THEN PointTable[Len(board)]
    ELSE SumPoints(board, RunStarts(board))

----------------------------------------------------------------------------
(* Termination test and ranking *)

ActiveTeams(game) ==
    {t \in 1..Len(game.teams) : game.teams[t].players # {}}

BoardFull(board) == \A i \in 1..Len(board) : Filled(board, i)

\* the round maximum is the number of slots of a board
RoundLimit(game) == Len(game.teams[1].board)

checkGameEnd(game) ==
    \/ game.currentRound >= RoundLimit(game)
    \/ \A t \in ActiveTeams(game) : BoardFull(game.teams[t].board)

Better(teams, a, b) ==
    \/ teams[a].score > teams[b].score
    \/ teams[a].score = teams[b].score /\ a < b

RECURSIVE RankFrom(_, _, _)
RankFrom(teams, S, r) ==
    IF S = {} THEN <<>>
    ELSE LET best == CHOOSE a \in S : \A b \in S \ {a} : Better(teams, a, b)
         IN <<[teamNumber |-> best, score |-> teams[best].score, rank |-> r]>>
            \o RankFrom(teams, S \ {best}, r + 1)

calculateFinalRanking(game) ==
    RankFrom(game.teams, 1..Len(game.teams), 1)

\* HostView: [...activeTeams].sort((a, b) => b.score - a.score), a stable
\* sort of the teams with a member, taken in the order of game.teams
InsertPosition_BeforeEqual(teams, seq, t) ==
    LET lower == {j \in 1..Len(seq) : teams[seq[j]].score <= teams[t].score}
    IN IF lower = {} THEN Len(seq) + 1
       ELSE CHOOSE j \in lower : \A k \in lower : j <= k

InsertPosition(teams, seq, t) ==
    LET lower == {j \in 1..Len(seq) : teams[seq[j]].score < teams[t].score}
    IN IF lower = {} THEN Len(seq) + 1
       ELSE CHOOSE j \in lower : \A k \in lower : j <= k

RECURSIVE StableSort(_, _, _)
StableSort(teams, seq, t) ==
    IF t > Len(teams) THEN seq
    ELSE IF teams[t].players = {} THEN StableSort(teams, seq, t + 1)
    ELSE LET j == InsertPosition(teams, seq, t)
         IN StableSort(teams,
                       SubSeq(seq, 1, j - 1) \o <<t>> \o SubSeq(seq, j, Len(seq)),
                       t + 1)

sortedTeams(game) == StableSort(game.teams, <<>>, 1)

----------------------------------------------------------------------------
(* Construction *)

EmptyBoard == [i \in 1..BoardSize |-> Null]

NewTeam(players, score) ==
    [players |-> players, board |-> EmptyBoard, score |-> score,
     hasPlacedCurrentNumber |-> FALSE]

createMockGame(teamCount, started, ended, playersPerTeam, score) ==
    [teams |-> [i \in 1..teamCount |->
                  NewTeam({100 + 10 * i + j : j \in 0..(playersPerTeam - 1)},
                          IF ended THEN score[i] ELSE 0)],
     usedNumbers |-> <<>>,
     usedCardIndices |-> <<>>,
     currentNumber |-> Null,
     gameStarted |-> started,
     gameEnded |-> ended,
     waitingForPlacements |-> FALSE,
     currentRound |-> IF ended THEN MaxRounds
                      ELSE IF started THEN MockStartedRound ELSE 0,
     finalRanking |-> <<>>,
     creatorId |-> "ADMIN",
     createdAt |-> 0]

INITIAL_GAMES(score) ==
    [n \in GameNames |->
        IF n = "samsung" THEN createMockGame(2, TRUE, FALSE, 3, score)
        ELSE IF n = "coke" THEN createMockGame(2, TRUE, TRUE, 2, score)
        ELSE NoGame]

NewGame(teamCount, creator, t) ==
    [teams |-> [i \in 1..teamCount |-> NewTeam({}, 0)],
     usedNumbers |-> <<>>,
     usedCardIndices |-> <<>>,
     currentNumber |-> Null,
     gameStarted |-> FALSE,
     gameEnded |-> FALSE,
     waitingForPlacements |-> FALSE,
     currentRound |-> 0,
     finalRanking |-> <<>>,
     creatorId |-> creator,
     createdAt |-> t]

NoSession ==
    [gameId |-> NoName, role |-> "NONE", myTeamId |-> 0]

Slices == {"games", "members", "logs"}

NoEffect == [x \in Slices |-> "none"]

MemberIds == {"mem_1", "mem_2"}

NoMember == "none"

MemberStatus == {"ACTIVE", "SUSPENDED"}

\* members lists: the status of each member id, NoMember where the list
\* holds no record of that id
INITIAL_MEMBERS ==
    [m \in MemberIds |-> IF m = "mem_1" THEN "ACTIVE" ELSE NoMember]

\* loadFromStorage(MEMBERS, INITIAL_MEMBERS) on every client, nobody
\* logged in
MembersLoaded ==
    /\ memberStore = INITIAL_MEMBERS
    /\ members = [c \in Clients |-> INITIAL_MEMBERS]
    /\ memberId = [c \in Clients |-> NoName]

EmptyList == [n \in GameNames |-> NoGame]

NoCall ==
    [call |-> "none", outcome |-> "returned", value |-> EmptyList,
     unsubscribe |-> "none", wrote |-> FALSE]

\* the Firebase module has been loaded and initialized, no function of it
\* has been called
FirebaseLoaded ==
    /\ database = [c \in Clients |-> "live"]
    /\ lastCall = [c \in Clients |-> NoCall]

\* useFirebase is false: no listener, the ref keeps its initial value
SyncOff ==
    /\ subscription = [c \in Clients |-> "none"]
    /\ isFirebaseUpdate = [c \in Clients |-> FALSE]
    /\ pendingEffect = [c \in Clients |-> NoEffect]


Init ==
    /\ \E score \in MockScores :
          /\ store = INITIAL_GAMES(score)
          /\ games = [c \in Clients |-> INITIAL_GAMES(score)]
    /\ currentUser = [c \in Clients |-> "GUEST"]
    /\ session = [c \in Clients |-> NoSession]
    /\ selectedGameId = [c \in Clients |-> NoName]
    /\ pendingSelection = [c \in Clients |-> Null]
    /\ now = 0
    /\ lag = [c \in Clients |-> 0]
    /\ staleWrites = 0
    /\ SyncOff
    /\ MembersLoaded
    /\ FirebaseLoaded

----------------------------------------------------------------------------
(* Derived state of one client *)

activeGame(c) ==
    IF session[c].gameId = NoName THEN NoGame
    ELSE games[c][session[c].gameId]

InLobby(c) == session[c].gameId = NoName

HostViewMounted(c) == session[c].role = "HOST" /\ activeGame(c) # NoGame

PlayerViewMounted(c) ==
    /\ session[c].role = "PLAYER"
    /\ activeGame(c) # NoGame
    /\ session[c].myTeamId \in 1..Len(activeGame(c).teams)

isAuthorized(c) == currentUser[c] \in {"ADMIN", "MEMBER"}

UserId(c) ==
    IF currentUser[c] = "ADMIN" THEN "ADMIN"
    ELSE IF currentUser[c] = "MEMBER" THEN memberId[c]
    ELSE "guest"

canSwitchToHostView(c) ==
    \/ currentUser[c] = "ADMIN"
    \/ activeGame(c) # NoGame /\ activeGame(c).creatorId = UserId(c)

Falsy(v) == v = Null \/ v = 0

\* setGames(list) followed by the effect that saves the list (lines 222-231)
Commit(c, list) ==
    /\ lag[c] > 0 => staleWrites < MaxStaleWrites
    /\ \A d \in Clients \ {c} : lag[d] < MaxLag
    /\ games' = [games EXCEPT ![c] = list]
    /\ store' = list
    /\ lag' = [d \in Clients |-> IF d = c THEN 0 ELSE lag[d] + 1]
    /\ staleWrites' = IF lag[c] > 0 THEN staleWrites + 1 ELSE staleWrites

\* HostView keeps pendingSelection only while it stays mounted
KeepPending(c, list, sess) ==
    IF sess.role = "HOST" /\ sess.gameId # NoName /\ list[sess.gameId] # NoGame
    THEN pendingSelection[c]
    ELSE Null

----------------------------------------------------------------------------
(* Command handlers as functions of the game they read.  A handler that   *)
(* returns early leaves every variable unchanged: the outcome names the   *)
(* early return that was taken.                                            *)

updateGame(list, companyName, updated) ==
    [n \in GameNames |->
        IF n = companyName /\ list[n] # NoGame THEN updated ELSE list[n]]

startCompanyGame(game) ==
    IF ActiveTeams(game) = {}
    THEN [game |-> game, outcome |-> "NotEnoughTeams"]
    ELSE [game |-> [game EXCEPT !.gameStarted = TRUE,
                                !.currentRound = 0,
                                !.currentNumber = Null],
          outcome |-> "ok"]

selectNumberByHost(game, num, cardIndex) ==
    IF game.waitingForPlacements
    THEN [game |-> game, outcome |-> "RoundInProgress"]
    ELSE [game |->
            [game EXCEPT
               !.currentNumber = num,
               !.usedNumbers = Append(game.usedNumbers, num),
               !.usedCardIndices = Append(game.usedCardIndices, cardIndex),
               !.waitingForPlacements = TRUE,
               !.currentRound = game.currentRound + 1,
               !.teams = [t \in 1..Len(game.teams) |->
                            [game.teams[t] EXCEPT
                               !.hasPlacedCurrentNumber = FALSE]]],
          outcome |-> "ok"]

AllPlaced(teams) ==
    \A t \in 1..Len(teams) :
        teams[t].players # {} => teams[t].hasPlacedCurrentNumber

Settle_EndsEveryRound(game, newTeams) ==
    LET merged == [game EXCEPT !.teams = newTeams,
                               !.waitingForPlacements = ~AllPlaced(newTeams)]
    IN IF AllPlaced(newTeams)
       THEN [merged EXCEPT !.gameEnded = TRUE,
                           !.finalRanking = calculateFinalRanking(merged)]
       ELSE merged

Settle_ClosesOnAnyPlacement(game, newTeams) ==
    LET merged == [game EXCEPT !.teams = newTeams,
                               !.waitingForPlacements = FALSE]
    IN IF AllPlaced(newTeams) /\ checkGameEnd(merged)
       THEN [merged EXCEPT !.gameEnded = TRUE,
                           !.finalRanking = calculateFinalRanking(merged)]
       ELSE merged

Settle_EndsOnlyWhenFull(game, newTeams) ==
    LET merged == [game EXCEPT !.teams = newTeams,
                               !.waitingForPlacements = ~AllPlaced(newTeams)]
    IN IF /\ AllPlaced(newTeams)
          /\ \A t \in ActiveTeams(merged) : BoardFull(merged.teams[t].board)
       THEN [merged EXCEPT !.gameEnded = TRUE,
                           !.finalRanking = calculateFinalRanking(merged)]
       ELSE merged

Settle(game, newTeams) ==
    LET merged == [game EXCEPT !.teams = newTeams,
                               !.waitingForPlacements = ~AllPlaced(newTeams)]
    IN IF AllPlaced(newTeams) /\ checkGameEnd(merged)
       THEN [merged EXCEPT !.gameEnded = TRUE,
                           !.finalRanking = calculateFinalRanking(merged)]
       ELSE merged

placeNumberInTeam_MarksFirst(game, teamIdx, position) ==
    LET team == game.teams[teamIdx]
        marked == [game EXCEPT
                     !.teams[teamIdx].hasPlacedCurrentNumber = TRUE]
    IN
    IF ~game.gameStarted \/ game.gameEnded
    THEN [game |-> game, outcome |-> "NotActive"]
    ELSE IF team.hasPlacedCurrentNumber
    THEN [game |-> game, outcome |-> "AlreadyPlacedThisRound"]
    ELSE IF team.board[position + 1] # Null
    THEN [game |-> marked, outcome |-> "SlotOccupied"]
    ELSE IF Falsy(game.currentNumber)
    THEN [game |-> marked, outcome |-> "NoActiveDraw"]
    ELSE LET newBoard == [team.board EXCEPT ![position + 1] = game.currentNumber]
             newTeams == [game.teams EXCEPT ![teamIdx] =
                            [team EXCEPT
                               !.board = newBoard,
                               !.score = calculatePlayerScore(newBoard),
                               !.hasPlacedCurrentNumber = TRUE]]
         IN [game |-> Settle(game, newTeams), outcome |-> "ok"]

placeNumberInTeam_ScoresOldBoard(game, teamIdx, position) ==
    LET team == game.teams[teamIdx] IN
    IF ~game.gameStarted \/ game.gameEnded
    THEN [game |-> game, outcome |-> "NotActive"]
    ELSE IF team.hasPlacedCurrentNumber
    THEN [game |-> game, outcome |-> "AlreadyPlacedThisRound"]
    ELSE IF team.board[position + 1] # Null
    THEN [game |-> game, outcome |-> "SlotOccupied"]
    ELSE IF Falsy(game.currentNumber)
    THEN [game |-> game, outcome |-> "NoActiveDraw"]
    ELSE LET newBoard == [team.board EXCEPT ![position + 1] = game.currentNumber]
             newTeams == [game.teams EXCEPT ![teamIdx] =
                            [team EXCEPT
                               !.board = newBoard,
                               !.score = calculatePlayerScore(team.board),
                               !.hasPlacedCurrentNumber = TRUE]]
         IN [game |-> Settle(game, newTeams), outcome |-> "ok"]

placeNumberInTeam_RescoresEveryTeam(game, teamIdx, position) ==
    LET team == game.teams[teamIdx] IN
    IF ~game.gameStarted \/ game.gameEnded
    THEN [game |-> game, outcome |-> "NotActive"]
    ELSE IF team.hasPlacedCurrentNumber
    THEN [game |-> game, outcome |-> "AlreadyPlacedThisRound"]
    ELSE IF team.board[position + 1] # Null
    THEN [game |-> game, outcome |-> "SlotOccupied"]
    ELSE IF Falsy(game.currentNumber)
    THEN [game |-> game, outcome |-> "NoActiveDraw"]
    ELSE LET newBoard == [team.board EXCEPT ![position + 1] = game.currentNumber]
             newTeams == [t \in 1..Len(game.teams) |->
                            IF t = teamIdx
                            THEN [team EXCEPT
                                    !.board = newBoard,
                                    !.score = calculatePlayerScore(newBoard),
                                    !.hasPlacedCurrentNumber = TRUE]
                            ELSE [game.teams[t] EXCEPT
                                    !.score = calculatePlayerScore(newBoard)]]
         IN [game |-> Settle(game, newTeams), outcome |-> "ok"]

placeNumberInTeam(game, teamIdx, position) ==
    LET team == game.teams[teamIdx] IN
    IF ~game.gameStarted \/ game.gameEnded
    THEN [game |-> game, outcome |-> "NotActive"]
    ELSE IF team.hasPlacedCurrentNumber
    THEN [game |-> game, outcome |-> "AlreadyPlacedThisRound"]
    ELSE IF team.board[position + 1] # Null
    THEN [game |-> game, outcome |-> "SlotOccupied"]
    ELSE IF Falsy(game.currentNumber)
    THEN [game |-> game, outcome |-> "NoActiveDraw"]
    ELSE LET newBoard == [team.board EXCEPT ![position + 1] = game.currentNumber]
             newTeams == [game.teams EXCEPT ![teamIdx] =
                            [team EXCEPT
                               !.board = newBoard,
                               !.score = calculatePlayerScore(newBoard),
                               !.hasPlacedCurrentNumber = TRUE]]
         IN [game |-> Settle(game, newTeams), outcome |-> "ok"]

joinTeam(game, teamIdx, playerName) ==
    LET team == game.teams[teamIdx] IN
    IF Cardinality(team.players) >= MaxPlayers
    THEN [game |-> game, outcome |-> "TeamFull"]
    ELSE IF playerName \in team.players
    THEN [game |-> game, outcome |-> "NameTaken"]
    ELSE [game |-> [game EXCEPT !.teams[teamIdx].players =
                                   team.players \cup {playerName}],
          outcome |-> "ok"]

checkGames_StrictlyOlder(list, t) ==
    [n \in GameNames |->
        IF list[n] = NoGame THEN NoGame
        ELSE IF t - list[n].createdAt > DeleteAfter THEN NoGame
        ELSE IF t - list[n].createdAt > EndAfter /\ ~list[n].gameEnded
        THEN [list[n] EXCEPT !.gameEnded = TRUE]
        ELSE list[n]]

checkGames(list, t) ==
    [n \in GameNames |->
        IF list[n] = NoGame THEN NoGame
        ELSE IF t - list[n].createdAt >= DeleteAfter THEN NoGame
        ELSE IF t - list[n].createdAt >= EndAfter /\ ~list[n].gameEnded
        THEN [list[n] EXCEPT !.gameEnded = TRUE]
        ELSE list[n]]

----------------------------------------------------------------------------
(* Actions *)

Login(c) ==
    /\ InLobby(c)
    /\ currentUser[c] = "GUEST"
    /\ currentUser' = [currentUser EXCEPT ![c] = "ADMIN"]
    /\ UNCHANGED <<store, games, session, selectedGameId, pendingSelection,
                   now, lag, staleWrites>>
    /\ UNCHANGED syncVars
    /\ UNCHANGED memberVars
    /\ UNCHANGED firebaseVars

CreateCompanyGame(c, name, teamCount) ==
    /\ InLobby(c)
    /\ isAuthorized(c)
    /\ games[c][name] = NoGame
    /\ Commit(c, [games[c] EXCEPT
                    ![name] = NewGame(teamCount, UserId(c), now)])
    /\ session' = [session EXCEPT ![c] =
                     [gameId |-> name, role |-> "HOST", myTeamId |-> 0]]
    /\ UNCHANGED <<currentUser, selectedGameId, pendingSelection, now>>
    /\ UNCHANGED syncVars
    /\ UNCHANGED memberVars
    /\ UNCHANGED firebaseVars

SelectGame(c, g) ==
    /\ InLobby(c)
    /\ selectedGameId[c] = NoName
    /\ g \in Joinable
    /\ games[c][g] # NoGame
    /\ ~games[c][g].gameEnded
    /\ selectedGameId' = [selectedGameId EXCEPT ![c] = g]
    /\ UNCHANGED <<store, games, currentUser, session, pendingSelection, now,
                   lag, staleWrites>>
    /\ UNCHANGED syncVars
    /\ UNCHANGED memberVars
    /\ UNCHANGED firebaseVars

JoinTeam(c, teamIdx) ==
    LET g == selectedGameId[c] IN
    /\ InLobby(c)
    /\ g # NoName
    /\ games[c][g] # NoGame
    /\ teamIdx \in 1..Len(games[c][g].teams)
    /\ LET r == joinTeam(games[c][g], teamIdx, c) IN
          /\ r.outcome = "ok"
          /\ Commit(c, [games[c] EXCEPT ![g] = r.game])
    /\ session' = [session EXCEPT ![c] =
                     [gameId |-> g, role |-> "PLAYER", myTeamId |-> teamIdx]]
    /\ selectedGameId' = [selectedGameId EXCEPT ![c] = NoName]
    /\ UNCHANGED <<currentUser, pendingSelection, now>>
    /\ UNCHANGED syncVars
    /\ UNCHANGED memberVars
    /\ UNCHANGED firebaseVars

toggleViewMode(c) ==
    /\ ~InLobby(c)
    /\ session[c].role \in {"HOST", "PLAYER"}
    /\ canSwitchToHostView(c)
    /\ session' = [session EXCEPT ![c] =
          IF session[c].role = "HOST"
          THEN IF session[c].myTeamId = 0
               THEN [session[c] EXCEPT !.role = "PLAYER", !.myTeamId = 1]
               ELSE [session[c] EXCEPT !.role = "PLAYER"]
          ELSE [session[c] EXCEPT !.role = "HOST"]]
    /\ pendingSelection' = [pendingSelection EXCEPT ![c] = Null]
    /\ UNCHANGED <<store, games, currentUser, selectedGameId, now,
                   lag, staleWrites>>
    /\ UNCHANGED syncVars
    /\ UNCHANGED memberVars
    /\ UNCHANGED firebaseVars

StartGame(c) ==
    /\ HostViewMounted(c)
    /\ ~activeGame(c).gameStarted
    /\ LET r == startCompanyGame(activeGame(c)) IN
          /\ r.outcome = "ok"
          /\ Commit(c, updateGame(games[c], session[c].gameId, r.game))
    /\ UNCHANGED <<currentUser, session, selectedGameId, pendingSelection,
                   now>>
    /\ UNCHANGED syncVars
    /\ UNCHANGED memberVars
    /\ UNCHANGED firebaseVars

ControlsRendered(c) ==
    /\ HostViewMounted(c)
    /\ activeGame(c).gameStarted
    /\ ~activeGame(c).gameEnded

Undrawn(game) ==
    {i \in 0..(DeckSize - 1) :
        \A k \in 1..Len(game.usedCardIndices) : game.usedCardIndices[k] # i}

SelectCard(c, idx) ==
    /\ ControlsRendered(c)
    /\ ~activeGame(c).waitingForPlacements
    /\ idx \in Undrawn(activeGame(c))
    /\ pendingSelection' = [pendingSelection EXCEPT ![c] = idx]
    /\ UNCHANGED <<store, games, currentUser, session, selectedGameId, now,
                   lag, staleWrites>>
    /\ UNCHANGED syncVars
    /\ UNCHANGED memberVars
    /\ UNCHANGED firebaseVars

\* the pick availableIndices[Math.floor(Math.random() * n)] of the handler:
\* any of the n available indices; a bare return otherwise
randomUndrawnIndex(game) ==
    IF game.waitingForPlacements \/ game.gameEnded
    THEN [picks |-> {}, outcome |-> "ignored"]
    ELSE IF Undrawn(game) = {}
    THEN [picks |-> {}, outcome |-> "silent"]
    ELSE [picks |-> Undrawn(game), outcome |-> "ok"]

handleRandomSelect(c) ==
    /\ ControlsRendered(c)
    /\ randomUndrawnIndex(activeGame(c)).outcome = "ok"
    /\ \E idx \in randomUndrawnIndex(activeGame(c)).picks :
          pendingSelection' = [pendingSelection EXCEPT ![c] = idx]
    /\ UNCHANGED <<store, games, currentUser, session, selectedGameId, now,
                   lag, staleWrites>>
    /\ UNCHANGED syncVars
    /\ UNCHANGED memberVars
    /\ UNCHANGED firebaseVars

SubmitEnabled(c) ==
    /\ ControlsRendered(c)
    /\ ~activeGame(c).waitingForPlacements
    /\ pendingSelection[c] # Null

handleSubmitNumber(c) ==
    /\ SubmitEnabled(c)
    /\ LET idx == pendingSelection[c]
           r == selectNumberByHost(activeGame(c), createFullDeck[idx], idx)
       IN /\ r.outcome = "ok"
          /\ Commit(c, updateGame(games[c], session[c].gameId, r.game))
    /\ pendingSelection' = [pendingSelection EXCEPT ![c] = Null]
    /\ UNCHANGED <<currentUser, session, selectedGameId, now>>
    /\ UNCHANGED syncVars
    /\ UNCHANGED memberVars
    /\ UNCHANGED firebaseVars

PlaceNumber(c, position) ==
    /\ PlayerViewMounted(c)
    /\ LET r == placeNumberInTeam(activeGame(c), session[c].myTeamId,
                                  position)
       IN /\ r.outcome = "ok"
          /\ Commit(c, updateGame(games[c], session[c].gameId, r.game))
    /\ UNCHANGED <<currentUser, session, selectedGameId, pendingSelection,
                   now>>
    /\ UNCHANGED syncVars
    /\ UNCHANGED memberVars
    /\ UNCHANGED firebaseVars

CheckGames(c) ==
    /\ checkGames(games[c], now) # store
    /\ Commit(c, checkGames(games[c], now))
    /\ pendingSelection' = [pendingSelection EXCEPT
          ![c] = KeepPending(c, checkGames(games[c], now), session[c])]
    /\ UNCHANGED <<currentUser, session, selectedGameId, now>>
    /\ UNCHANGED syncVars
    /\ UNCHANGED memberVars
    /\ UNCHANGED firebaseVars

Receive(c) ==
    /\ lag[c] > 0
    /\ games' = [games EXCEPT ![c] = store]
    /\ lag' = [lag EXCEPT ![c] = 0]
    /\ pendingSelection' = [pendingSelection EXCEPT
          ![c] = KeepPending(c, store, session[c])]
    /\ UNCHANGED <<store, currentUser, session, selectedGameId, now,
                   staleWrites>>
    /\ UNCHANGED syncVars
    /\ UNCHANGED memberVars
    /\ UNCHANGED firebaseVars

Tick ==
    /\ now < MaxNow
    /\ now' = now + 1
    /\ UNCHANGED <<store, games, currentUser, session, selectedGameId,
                   pendingSelection, lag, staleWrites>>
    /\ UNCHANGED syncVars
    /\ UNCHANGED memberVars
    /\ UNCHANGED firebaseVars

Next ==
    \/ \E c \in Clients : Login(c)
    \/ \E c \in Clients, n \in NewNames, k \in TeamCounts :
          CreateCompanyGame(c, n, k)
    \/ \E c \in Clients, g \in GameNames : SelectGame(c, g)
    \/ \E c \in Clients, t \in 1..2 : JoinTeam(c, t)
    \/ \E c \in Clients : toggleViewMode(c)
    \/ \E c \in Clients : StartGame(c)
    \/ \E c \in Clients, i \in 0..(DeckSize - 1) : SelectCard(c, i)
    \/ \E c \in Clients : handleRandomSelect(c)
    \/ \E c \in Clients : handleSubmitNumber(c)
    \/ \E c \in Clients, p \in 0..(BoardSize - 1) : PlaceNumber(c, p)
    \/ \E c \in Clients : CheckGames(c)
    \/ \E c \in Clients : Receive(c)
    \/ Tick

Spec == Init /\ [][Next]_vars

----------------------------------------------------------------------------
(* Vocabulary of the properties *)

Present(list, g) == list[g] # NoGame

Phase(game) ==
    IF game.gameEnded THEN "ENDED"
    ELSE IF game.gameStarted THEN "ACTIVE"
    ELSE "LOBBY"

MyGame(c) == session[c].gameId

Distinct(seq) ==
    \A j, k \in 1..Len(seq) : j # k => seq[j] # seq[k]

----------------------------------------------------------------------------
(* C1: once a slot of a team board holds a value, it holds that same      *)
(* value in every later state of the game in the shared list: no step     *)
(* clears or overwrites a filled slot.                                     *)

C1_FilledSlotKept ==
    [][\A g \in GameNames :
          (Present(store, g) /\ Present(store', g)) =>
             \A t \in 1..Len(store[g].teams), i \in 1..BoardSize :
                (t <= Len(store'[g].teams)
                 /\ store[g].teams[t].board[i] # Null) =>
                    store'[g].teams[t].board[i] = store[g].teams[t].board[i]
      ]_vars

(* C2: the drawn card indices of every game of the shared list are        *)
(* pairwise distinct and all lie in 0..DeckSize-1.                         *)

C2_DrawnIndicesDistinct ==
    \A g \in GameNames :
        Present(store, g) =>
            /\ Distinct(store[g].usedCardIndices)
            /\ \A k \in 1..Len(store[g].usedCardIndices) :
                  store[g].usedCardIndices[k] \in 0..(DeckSize - 1)

(* C3: in every state, every team's stored score equals the score         *)
(* computed from its board, the initial games included.                    *)

C3_ScoreMatchesBoard ==
    \A g \in GameNames :
        Present(store, g) =>
            \A t \in 1..Len(store[g].teams) :
                store[g].teams[t].score =
                    calculatePlayerScore(store[g].teams[t].board)

(* C4: once the shared list shows that a team has placed for the current *)
(* draw, a further placement for that team before the next draw is        *)
(* rejected: no placement step for that team leaves the shared board      *)
(* different from what it was after the first placement.                   *)

C4_SecondPlacementRejected ==
    [][\A c \in Clients, p \in 0..(BoardSize - 1) :
          (/\ PlaceNumber(c, p)
           /\ Present(store, MyGame(c))
           /\ store[MyGame(c)].teams[session[c].myTeamId]
                 .hasPlacedCurrentNumber
           /\ store[MyGame(c)].usedCardIndices
                 = activeGame(c).usedCardIndices) =>
             store'[MyGame(c)].teams[session[c].myTeamId].board
                = store[MyGame(c)].teams[session[c].myTeamId].board
      ]_vars

(* C5: commands on one game are serialized: every list saved to the       *)
(* shared list was computed by a client from the shared list as it stood  *)
(* just before the save, never from an older copy.                         *)

C5_WritesFromCurrentState ==
    [][store' # store =>
          \E c \in Clients : games[c] = store /\ games'[c] = store'
      ]_vars

----------------------------------------------------------------------------
(* Steps of one client on its own copy of a game *)

BecomesEnded(c, g) ==
    /\ Present(games[c], g) /\ Present(games'[c], g)
    /\ ~games[c][g].gameEnded
    /\ games'[c][g].gameEnded

\* the round of c's game is settled after the step and the end test holds
SettledAtEnd(c) ==
    /\ AllPlaced(games'[c][MyGame(c)].teams)
    /\ checkGameEnd(games'[c][MyGame(c)])

PlacementStep(c) == \E p \in 0..(BoardSize - 1) : PlaceNumber(c, p)

SettleDecidesEnd(c) ==
    PlacementStep(c) =>
        (games'[c][MyGame(c)].gameEnded <=> SettledAtEnd(c))

(* C6 as stated: a copy of a game becomes ENDED only by a placement that  *)
(* settles the round with the round maximum reached or every active board *)
(* full (or by reading the shared list), and such a placement always ends *)
(* the game; no other event sets ENDED.                                    *)

C7_PhaseOrder ==
    [][\A g \in GameNames :
          (Present(store, g) /\ Present(store', g)) =>
             \/ Phase(store'[g]) = Phase(store[g])
             \/ Phase(store[g]) = "LOBBY" /\ Phase(store'[g]) = "ACTIVE"
             \/ Phase(store[g]) = "ACTIVE" /\ Phase(store'[g]) = "ENDED"
      ]_vars

(* C8: once a client's copy of a game is ENDED, no command of that client *)
(* (start, draw, join, place) changes the game.                            *)

C8_EndedIsFrozen ==
    [][\A c \in Clients, g \in GameNames :
          (/\ Present(games[c], g) /\ Present(games'[c], g)
           /\ games[c][g].gameEnded
           /\ ~Receive(c)) =>
             games'[c][g] = games[c][g]
      ]_vars

(* C9: when a game of the shared list becomes ENDED its final ranking is  *)
(* the ranking of its teams at that moment, and the final ranking of an   *)
(* ENDED game never changes afterwards.                                    *)

C9_RankingAtTransition ==
    [][\A g \in GameNames :
          (Present(store', g) /\ store'[g].gameEnded) =>
             IF Present(store, g) /\ store[g].gameEnded
             THEN store'[g].finalRanking = store[g].finalRanking
             ELSE store'[g].finalRanking = calculateFinalRanking(store'[g])
      ]_vars

(* C10: a draw is accepted only while the game, as the shared list holds  *)
(* it, is ACTIVE and not waiting for placements.                           *)

C10_DrawOnlyWhenIdle ==
    [][\A c \in Clients :
          handleSubmitNumber(c) =>
             /\ Present(store, MyGame(c))
             /\ Phase(store[MyGame(c)]) = "ACTIVE"
             /\ ~store[MyGame(c)].waitingForPlacements
      ]_vars

(* C11: a draw is accepted only for a card index that lies in              *)
(* 0..DeckSize-1 and is not yet in the drawn set of the game the handler   *)
(* reads; an accepted draw appends that index and makes the card's value   *)
(* the current draw in the same step.                                      *)

C11_DrawValidatesIndex ==
    [][\A c \in Clients :
          handleSubmitNumber(c) =>
             LET idx == pendingSelection[c]
                 old == activeGame(c)
                 new == games'[c][MyGame(c)]
             IN /\ idx \in Undrawn(old)
                /\ new.usedCardIndices = Append(old.usedCardIndices, idx)
                /\ new.currentNumber = createFullDeck[idx]
      ]_vars

(* C12: once a game of the shared list has started, its round counter     *)
(* goes up by exactly 1 in every step that is an accepted draw on that    *)
(* game and is left unchanged by every other step.                         *)

C12_RoundCounterByDrawOnly ==
    [][\A g \in GameNames :
          (Present(store, g) /\ Present(store', g) /\ store[g].gameStarted) =>
             IF \E c \in Clients : handleSubmitNumber(c) /\ MyGame(c) = g
             THEN store'[g].currentRound = store[g].currentRound + 1
             ELSE store'[g].currentRound = store[g].currentRound
      ]_vars

(* C13: right after every accepted draw the game in the shared list has   *)
(* the placed flag false for every team, is waiting for placements and    *)
(* has the drawn card's value as current draw; a team's flag in the       *)
(* shared list goes from false to true only in a step that is an accepted *)
(* placement for that team.                                                *)

C13_FlagsAfterDraw ==
    [][/\ \A c \in Clients :
             handleSubmitNumber(c) =>
                LET new == store'[MyGame(c)]
                IN /\ \A t \in 1..Len(new.teams) :
                         ~new.teams[t].hasPlacedCurrentNumber
                   /\ new.waitingForPlacements
                   /\ new.currentNumber = createFullDeck[pendingSelection[c]]
       /\ \A g \in GameNames :
             (Present(store, g) /\ Present(store', g)) =>
                \A t \in 1..Len(store[g].teams) :
                   (/\ ~store[g].teams[t].hasPlacedCurrentNumber
                    /\ store'[g].teams[t].hasPlacedCurrentNumber) =>
                      \E c \in Clients :
                         /\ PlacementStep(c)
                         /\ MyGame(c) = g
                         /\ session[c].myTeamId = t
      ]_vars

(* C14: after every accepted placement the game in the shared list has    *)
(* stopped waiting for placements exactly if every team with at least one *)
(* member has its placed flag set; only then the end test is applied (the *)
(* game is ENDED exactly if the test holds), otherwise the game keeps     *)
(* waiting and is not ended.                                               *)

C14_SettleWhenAllPlaced ==
    [][\A c \in Clients :
          PlacementStep(c) =>
             LET new == store'[MyGame(c)]
                 all == \A t \in 1..Len(new.teams) :
                           new.teams[t].players # {} =>
                              new.teams[t].hasPlacedCurrentNumber
             IN /\ new.waitingForPlacements = ~all
                /\ all => (new.gameEnded <=> checkGameEnd(new))
                /\ ~all => ~new.gameEnded
      ]_vars

C14_Witness ==
    \E g \in GameNames :
        /\ Present(store, g)
        /\ Phase(store[g]) = "ACTIVE"
        /\ store[g].waitingForPlacements
        /\ \A t \in 1..Len(store[g].teams) : store[g].teams[t].players # {}
        /\ \E t, u \in 1..Len(store[g].teams) :
              /\ store[g].teams[t].hasPlacedCurrentNumber
              /\ ~store[g].teams[u].hasPlacedCurrentNumber
              /\ store[g].teams[t].board # EmptyBoard

(* C15: a start is accepted only if at least one team has a member, and   *)
(* an accepted start leaves the game ACTIVE with round counter 0 and no   *)
(* current draw; with no member in any team startCompanyGame returns at   *)
(* the team test and the game is unchanged.                                *)

C15_StartMakesActive ==
    [][\A c \in Clients :
          /\ StartGame(c) =>
                /\ ActiveTeams(activeGame(c)) # {}
                /\ Phase(store'[MyGame(c)]) = "ACTIVE"
                /\ store'[MyGame(c)].currentRound = 0
                /\ store'[MyGame(c)].currentNumber = Null
          /\ (HostViewMounted(c) /\ ActiveTeams(activeGame(c)) = {}) =>
                /\ startCompanyGame(activeGame(c))
                      = [game |-> activeGame(c), outcome |-> "NotEnoughTeams"]
                /\ ~StartGame(c)
      ]_vars

(* C16: whenever startCompanyGame, selectNumberByHost or placeNumberInTeam *)
(* takes an early return (no team with a member, round in progress, game  *)
(* not active, team already placed, slot occupied, no current draw), the  *)
(* game it returns is the game it read, for every card and every slot.     *)

C16_RejectedLeavesGame ==
    \A c \in Clients :
        /\ HostViewMounted(c) =>
              /\ LET r == startCompanyGame(activeGame(c))
                 IN r.outcome # "ok" => r.game = activeGame(c)
              /\ \A idx \in 0..(DeckSize - 1) :
                    LET r == selectNumberByHost(activeGame(c),
                                                createFullDeck[idx], idx)
                    IN r.outcome # "ok" => r.game = activeGame(c)
        /\ PlayerViewMounted(c) =>
              \A p \in 0..(BoardSize - 1) :
                 LET r == placeNumberInTeam(activeGame(c),
                                            session[c].myTeamId, p)
                 IN r.outcome # "ok" => r.game = activeGame(c)

C16_Witness ==
    \E c, d \in Clients :
        /\ PlayerViewMounted(c)
        /\ \E p \in 0..(BoardSize - 1) :
              placeNumberInTeam(activeGame(c), session[c].myTeamId, p).outcome
                 = "SlotOccupied"
        /\ HostViewMounted(d)
        /\ selectNumberByHost(activeGame(d), createFullDeck[0], 0).outcome
              = "RoundInProgress"

----------------------------------------------------------------------------
(* What the caller of a handler gets when the handler returns early: the  *)
(* handlers return nothing; startCompanyGame, selectNumberByHost and      *)
(* joinTeam show an alert before returning, placeNumberInTeam does not.    *)

Surfaced(outcome) ==
    outcome \in {"NotEnoughTeams", "RoundInProgress", "TeamFull", "NameTaken"}

(* C17: every early return of a command handler gives its caller a        *)
(* specific error; no rejection is silent.                                 *)

C17_RejectionsSurfaced ==
    \A c \in Clients :
        /\ HostViewMounted(c) =>
              /\ LET r == startCompanyGame(activeGame(c))
                 IN r.outcome # "ok" => Surfaced(r.outcome)
              /\ \A idx \in 0..(DeckSize - 1) :
                    LET r == selectNumberByHost(activeGame(c),
                                                createFullDeck[idx], idx)
                    IN r.outcome # "ok" => Surfaced(r.outcome)
        /\ PlayerViewMounted(c) =>
              \A p \in 0..(BoardSize - 1) :
                 LET r == placeNumberInTeam(activeGame(c),
                                            session[c].myTeamId, p)
                 IN r.outcome # "ok" => Surfaced(r.outcome)

----------------------------------------------------------------------------
(* Placement over the card values a deck may hold.  The deck builder is   *)
(* given the value table as configuration; DrawValues are values of a     *)
(* drawn card.  The started game of INITIAL_GAMES is taken right after    *)
(* the host has drawn card 0 with such a value.                            *)

DrawValues == {0, 1}

InitDrawn ==
    /\ \E score \in MockScores, v \in DrawValues :
          LET list == updateGame(INITIAL_GAMES(score), "samsung",
                         selectNumberByHost(INITIAL_GAMES(score)["samsung"],
                                            v, 0).game)
          IN /\ store = list
             /\ games = [c \in Clients |-> list]
    /\ currentUser = [c \in Clients |-> "GUEST"]
    /\ session = [c \in Clients |-> NoSession]
    /\ selectedGameId = [c \in Clients |-> NoName]
    /\ pendingSelection = [c \in Clients |-> Null]
    /\ now = 0
    /\ lag = [c \in Clients |-> 0]
    /\ staleWrites = 0
    /\ SyncOff
    /\ MembersLoaded
    /\ FirebaseLoaded

NextPlace ==
    \/ \E c \in Clients, g \in GameNames : SelectGame(c, g)
    \/ \E c \in Clients, t \in 1..2 : JoinTeam(c, t)
    \/ \E c \in Clients, p \in 0..(BoardSize - 1) : PlaceNumber(c, p)
    \/ \E c \in Clients : CheckGames(c)
    \/ \E c \in Clients : Receive(c)

PlaceSpec == InitDrawn /\ [][NextPlace]_vars

(* C18: placeNumberInTeam returns at the current-draw test exactly when   *)
(* the game has no current draw; whenever the game has a current draw,    *)
(* whatever its value, is active, the team has not placed and the slot is *)
(* empty, the placement is accepted and the slot holds that value.         *)

C18_AnyDrawValuePlaceable ==
    \A c \in Clients :
        PlayerViewMounted(c) =>
           \A p \in 0..(BoardSize - 1) :
              LET g == activeGame(c)
                  t == session[c].myTeamId
                  r == placeNumberInTeam(g, t, p)
              IN /\ r.outcome = "NoActiveDraw" => g.currentNumber = Null
                 /\ (/\ g.currentNumber # Null
                     /\ Phase(g) = "ACTIVE"
                     /\ ~g.teams[t].hasPlacedCurrentNumber
                     /\ g.teams[t].board[p + 1] = Null) =>
                       /\ r.outcome = "ok"
                       /\ r.game.teams[t].board[p + 1] = g.currentNumber

----------------------------------------------------------------------------
(* End of a two-team game, on the copy of the client that makes the step  *)

RoundSettled(game) ==
    \A t \in 1..Len(game.teams) :
        game.teams[t].players # {} => game.teams[t].hasPlacedCurrentNumber

MemberBoardsFull(game) ==
    \A t \in 1..Len(game.teams) :
        game.teams[t].players # {} =>
            \A i \in 1..BoardSize : game.teams[t].board[i] # Null

\* what an accepted placement of c does to the end of its two-team game
PlacementEndsAtMaxOrFull(c) ==
    PlacementStep(c) =>
        LET new == games'[c][MyGame(c)]
        IN Len(new.teams) = 2 =>
              /\ (RoundSettled(new) /\ new.currentRound >= MaxRounds)
                    => new.gameEnded
              /\ (RoundSettled(new) /\ MemberBoardsFull(new))
                    => new.gameEnded
              /\ new.gameEnded =>
                    /\ RoundSettled(new)
                    /\ new.currentRound >= MaxRounds \/ MemberBoardsFull(new)

(* C19 as stated: a two-team game becomes ENDED exactly by the placement  *)
(* that settles the round in which the round counter has reached         *)
(* MaxRounds, full boards or not, or earlier by the placement that        *)
(* settles a round with every member team's board full; it becomes ENDED  *)
(* in no other way (a client's copy apart from reading the shared list).   *)

----------------------------------------------------------------------------
(* C20: the ranking orders teams by score descending and teams of equal   *)
(* score by ascending team number: this holds of HostView's sortedTeams   *)
(* (which lists exactly the teams with a member) and of every final       *)
(* ranking stored by calculateFinalRanking (whose entries are numbered    *)
(* 1, 2, ... in that order and carry the teams' scores), for every game   *)
(* of the shared list.                                                     *)

RankedBefore(sa, ta, sb, tb) ==
    sa > sb \/ (sa = sb /\ ta < tb)

C20_RankingOrder ==
    \A g \in GameNames :
        Present(store, g) =>
           LET teams == store[g].teams
               shown == sortedTeams(store[g])
               final == store[g].finalRanking
           IN /\ {shown[k] : k \in 1..Len(shown)} = ActiveTeams(store[g])
              /\ Len(shown) = Cardinality(ActiveTeams(store[g]))
              /\ \A j, k \in 1..Len(shown) :
                    j < k => RankedBefore(teams[shown[j]].score, shown[j],
                                          teams[shown[k]].score, shown[k])
              /\ final # <<>> =>
                    /\ Len(final) = Len(teams)
                    /\ \A k \in 1..Len(final) :
                          /\ final[k].rank = k
                          /\ final[k].teamNumber \in 1..Len(teams)
                          /\ final[k].score = teams[final[k].teamNumber].score
                    /\ \A j, k \in 1..Len(final) :
                          j < k => RankedBefore(final[j].score,
                                                final[j].teamNumber,
                                                final[k].score,
                                                final[k].teamNumber)

C20_Witness ==
    /\ sortedTeams(store["coke"]) = <<2, 1>>
    /\ \E g \in GameNames :
          /\ Present(store, g)
          /\ sortedTeams(store[g]) = <<1, 2>>
          /\ store[g].teams[1].score = store[g].teams[2].score
          /\ store[g].teams[1].board # EmptyBoard
          /\ store[g].finalRanking # <<>>
          /\ store[g].finalRanking[1].teamNumber = 1

----------------------------------------------------------------------------
(* Random selection.  HostView.handleRandomSelect picks among the indices *)
(* not in usedCardIndices and stores the pick as pendingSelection; the     *)
(* draw is committed later by handleSubmitNumber.  The game acme is taken  *)
(* after client 1 created it, client 2 joined team 1 and client 1 started  *)
(* it; both users are administrators, so both can mount HostView, and      *)
(* every pending selection is made by handleRandomSelect.                  *)

InitRandom ==
    /\ \E score \in MockScores :
          LET created == NewGame(2, "ADMIN", 0)
              joined == joinTeam(created, 1, 2).game
              list == [INITIAL_GAMES(score) EXCEPT
                         !["acme"] = startCompanyGame(joined).game]
          IN /\ store = list
             /\ games = [c \in Clients |-> list]
    /\ currentUser = [c \in Clients |-> "ADMIN"]
    /\ session = [c \in Clients |->
                    IF c = 1
                    THEN [gameId |-> "acme", role |-> "HOST", myTeamId |-> 0]
                    ELSE [gameId |-> "acme", role |-> "PLAYER",
                          myTeamId |-> 1]]
    /\ selectedGameId = [c \in Clients |-> NoName]
    /\ pendingSelection = [c \in Clients |-> Null]
    /\ now = 0
    /\ lag = [c \in Clients |-> 0]
    /\ staleWrites = 0
    /\ SyncOff
    /\ MembersLoaded
    /\ FirebaseLoaded

NextRandom ==
    \/ \E c \in Clients : toggleViewMode(c)
    \/ \E c \in Clients : handleRandomSelect(c)
    \/ \E c \in Clients : handleSubmitNumber(c)
    \/ \E c \in Clients, p \in 0..(BoardSize - 1) : PlaceNumber(c, p)
    \/ \E c \in Clients : Receive(c)

RandomSpec == InitRandom /\ [][NextRandom]_vars

(* C21: random selection returns only an index that is not in the drawn   *)
(* set, returns the one remaining index when exactly one is left, fails   *)
(* with DeckExhausted when none is left, and the index it returned is     *)
(* still undrawn in the step that commits the draw.                        *)

C21_RandomPickUndrawnAtCommit ==
    [][\A c \in Clients :
          /\ handleRandomSelect(c) =>
                LET r == randomUndrawnIndex(activeGame(c))
                IN /\ pendingSelection'[c] \in Undrawn(activeGame(c))
                   /\ Cardinality(Undrawn(activeGame(c))) = 1 =>
                         r.picks = {pendingSelection'[c]}
          /\ (ControlsRendered(c) /\ Undrawn(activeGame(c)) = {}) =>
                randomUndrawnIndex(activeGame(c)).outcome
                   \in {"ignored", "DeckExhausted"}
          /\ handleSubmitNumber(c) =>
                pendingSelection[c] \in Undrawn(activeGame(c))
      ]_vars

----------------------------------------------------------------------------
(* C22: game instances are isolated: a start, draw, join or place made by *)
(* a client on one game leaves every other game of the shared list as it  *)
(* was, whatever the other clients have written or received in between.   *)

C22_OtherGamesUntouched ==
    [][\A c \in Clients :
          LET target == IF InLobby(c) THEN selectedGameId[c] ELSE MyGame(c)
          IN (\/ StartGame(c)
              \/ handleSubmitNumber(c)
              \/ \E t \in 1..2 : JoinTeam(c, t)
              \/ \E p \in 0..(BoardSize - 1) : PlaceNumber(c, p)) =>
                \A h \in GameNames \ {target} : store'[h] = store[h]
      ]_vars

----------------------------------------------------------------------------
(* The Firebase build: isFirebaseConfigured() is true.  The games list of  *)
(* every client is kept in step with the remote list by the subscription  *)
(* effect (App.tsx 181-219) and written by the sync effect (222-231); the *)
(* callbacks of the three listeners and the three sync effects share the  *)
(* one ref isFirebaseUpdate.  A sync effect runs some time after the      *)
(* setter call that changed its slice; callbacks and handlers may run in  *)
(* between.                                                                *)

\* Firebase does not store empty arrays (HostView.tsx 15): what
\* snapshot.val() returns for a record that was written with set()
FirebaseVal(list) ==
    [n \in GameNames |->
        IF list[n] = NoGame THEN NoGame
        ELSE LET game == list[n]
                 teams == [t \in 1..Len(game.teams) |->
                             IF "players" \in DOMAIN game.teams[t]
                             THEN [f \in {h \in DOMAIN game.teams[t] :
                                            /\ h = "players" =>
                                                 game.teams[t].players # {}
                                            /\ h = "board" =>
                                                 game.teams[t].board
                                                    # EmptyBoard}
                                     |-> game.teams[t][f]]
                             ELSE game.teams[t]]
             IN [game EXCEPT !.teams = teams]]

HasRoster(team) == "players" \in DOMAIN team

HasBoard(team) == "board" \in DOMAIN team

\* the list another device has written to the remote store
RemoteGames(score) ==
    [INITIAL_GAMES(score) EXCEPT !["acme"] = NewGame(2, "ADMIN", 0)]

\* loadFromStorage(GAMES, INITIAL_GAMES): a cached list or the mock games
LocalGames(score) ==
    {INITIAL_GAMES(score),
     [INITIAL_GAMES(score) EXCEPT !["coke"] = NoGame]}

InitSync ==
    /\ \E score \in MockScores :
          \E local \in LocalGames(score) :
             /\ store = RemoteGames(score)
             /\ games = [c \in Clients |-> local]
    /\ currentUser = [c \in Clients |-> "GUEST"]
    /\ session = [c \in Clients |-> NoSession]
    /\ selectedGameId = [c \in Clients |-> NoName]
    /\ pendingSelection = [c \in Clients |-> Null]
    /\ now = 0
    /\ lag = [c \in Clients |-> 0]
    /\ staleWrites = 0
    /\ SyncOff
    /\ MembersLoaded
    /\ FirebaseLoaded

\* saveGames(list): set(gamesRef, list)
saveGames(c, list) ==
    /\ store' = list
    /\ lag' = [d \in Clients |->
                 IF d = c THEN lag[d]
                 ELSE IF lag[d] < MaxLag THEN lag[d] + 1 ELSE lag[d]]

\* first render of App: the listeners are attached, the sync effect runs
\* with the initial list, checkGames runs and the sync effect runs again
Mount(c) ==
    /\ subscription[c] = "none"
    /\ subscription' = [subscription EXCEPT ![c] = "waiting"]
    /\ games' = [games EXCEPT ![c] = checkGames(games[c], now)]
    /\ IF ~isFirebaseUpdate[c]
       THEN saveGames(c, checkGames(games[c], now))
       ELSE UNCHANGED <<store, lag>>
    /\ isFirebaseUpdate' = [isFirebaseUpdate EXCEPT ![c] = FALSE]
    /\ UNCHANGED <<currentUser, session, selectedGameId, pendingSelection,
                   now, staleWrites, pendingEffect>>
    /\ UNCHANGED memberVars
    /\ UNCHANGED firebaseVars

\* callback of subscribeToGames: the first snapshot, or a later one
subscribeToGames(c) ==
    /\ subscription[c] # "none"
    /\ subscription[c] = "waiting" \/ lag[c] > 0
    /\ subscription' = [subscription EXCEPT ![c] = "live"]
    /\ lag' = [lag EXCEPT ![c] = 0]
    /\ IF \E n \in GameNames : Present(store, n)
       THEN /\ isFirebaseUpdate' = [isFirebaseUpdate EXCEPT ![c] = TRUE]
            /\ games' = [games EXCEPT ![c] = FirebaseVal(store)]
            /\ pendingEffect' = [pendingEffect EXCEPT
                                   ![c]["games"] = "remote"]
       ELSE UNCHANGED <<isFirebaseUpdate, games, pendingEffect>>
    /\ UNCHANGED <<store, currentUser, session, selectedGameId,
                   pendingSelection, now, staleWrites>>
    /\ UNCHANGED memberVars
    /\ UNCHANGED firebaseVars

\* callbacks of subscribeToMembers and subscribeToLogs
subscribeToMembers(c, x) ==
    /\ subscription[c] # "none"
    /\ x \in {"members", "logs"}
    /\ pendingEffect[c][x] = "none"
    /\ isFirebaseUpdate' = [isFirebaseUpdate EXCEPT ![c] = TRUE]
    /\ pendingEffect' = [pendingEffect EXCEPT ![c][x] = "remote"]
    /\ UNCHANGED <<store, games, currentUser, session, selectedGameId,
                   pendingSelection, now, lag, staleWrites, subscription>>
    /\ UNCHANGED memberVars
    /\ UNCHANGED firebaseVars

\* joinTeam from the lobby list; the sync effect has not run yet.  A team
\* without roster makes team.players.length throw: nothing changes.
JoinTeamLocal(c, g, teamIdx) ==
    /\ subscription[c] # "none"
    /\ InLobby(c)
    /\ g \in Joinable
    /\ games[c][g] # NoGame
    /\ ~games[c][g].gameEnded
    /\ teamIdx \in 1..Len(games[c][g].teams)
    /\ HasRoster(games[c][g].teams[teamIdx])
    /\ LET r == joinTeam(games[c][g], teamIdx, c) IN
          /\ r.outcome = "ok"
          /\ games' = [games EXCEPT ![c][g] = r.game]
    /\ session' = [session EXCEPT ![c] =
                     [gameId |-> g, role |-> "PLAYER", myTeamId |-> teamIdx]]
    /\ pendingEffect' = [pendingEffect EXCEPT ![c]["games"] = "local"]
    /\ UNCHANGED <<store, currentUser, selectedGameId, pendingSelection,
                   now, lag, staleWrites, subscription, isFirebaseUpdate>>
    /\ UNCHANGED memberVars
    /\ UNCHANGED firebaseVars

\* condition of the save in the sync effects
SavesToFirebase(c) == ~isFirebaseUpdate[c]

\* useEffect [games]
gamesSyncEffect(c) ==
    /\ pendingEffect[c]["games"] # "none"
    /\ IF SavesToFirebase(c)
       THEN saveGames(c, games[c])
       ELSE UNCHANGED <<store, lag>>
    /\ isFirebaseUpdate' = [isFirebaseUpdate EXCEPT ![c] = FALSE]
    /\ pendingEffect' = [pendingEffect EXCEPT ![c]["games"] = "none"]
    /\ UNCHANGED <<games, currentUser, session, selectedGameId,
                   pendingSelection, now, staleWrites, subscription>>
    /\ UNCHANGED memberVars
    /\ UNCHANGED firebaseVars

\* useEffect [members] and useEffect [logs]
membersSyncEffect(c, x) ==
    /\ x \in {"members", "logs"}
    /\ pendingEffect[c][x] # "none"
    /\ isFirebaseUpdate' = [isFirebaseUpdate EXCEPT ![c] = FALSE]
    /\ pendingEffect' = [pendingEffect EXCEPT ![c][x] = "none"]
    /\ UNCHANGED <<store, games, currentUser, session, selectedGameId,
                   pendingSelection, now, lag, staleWrites, subscription>>
    /\ UNCHANGED memberVars
    /\ UNCHANGED firebaseVars

NextSync ==
    \/ \E c \in Clients : Mount(c)
    \/ \E c \in Clients : subscribeToGames(c)
    \/ \E c \in Clients, x \in Slices : subscribeToMembers(c, x)
    \/ \E c \in Clients, g \in GameNames, t \in 1..2 : JoinTeamLocal(c, g, t)
    \/ \E c \in Clients : gamesSyncEffect(c)
    \/ \E c \in Clients, x \in Slices : membersSyncEffect(c, x)

SyncSpec == InitSync /\ [][NextSync]_vars

(* C23: every team of every game a client holds, created locally or       *)
(* received from the store, has a roster and a board of exactly BoardSize *)
(* slots, so no handler or view meets a team without them; a team of a    *)
(* newly created game has an empty roster, an empty board, score 0 and    *)
(* the placed flag false.                                                  *)

C23_TeamsFullyInitialized ==
    /\ \A c \in Clients, g \in GameNames :
          Present(games[c], g) =>
             \A t \in 1..Len(games[c][g].teams) :
                /\ HasRoster(games[c][g].teams[t])
                /\ HasBoard(games[c][g].teams[t])
                /\ Len(games[c][g].teams[t].board) = BoardSize
    /\ \A k \in TeamCounts :
          \A t \in 1..k :
             NewGame(k, "ADMIN", now).teams[t] =
                [players |-> {}, board |-> EmptyBoard, score |-> 0,
                 hasPlacedCurrentNumber |-> FALSE]

----------------------------------------------------------------------------
(* C24: a member is added to a team only while the game is in LOBBY: every *)
(* accepted join is on a game that the joining client sees in LOBBY, and   *)
(* the rosters of a game that is ACTIVE or ENDED do not change.            *)

C24_JoinOnlyInLobby ==
    [][\A c \in Clients :
          /\ \A t \in 1..2 :
                JoinTeam(c, t) =>
                   Phase(games[c][selectedGameId[c]]) = "LOBBY"
          /\ \A g \in GameNames :
                (/\ Present(games[c], g)
                 /\ Present(games'[c], g)
                 /\ Phase(games[c][g]) # "LOBBY"
                 /\ \E t \in 1..2 : JoinTeam(c, t)) =>
                   \A t \in 1..Len(games[c][g].teams) :
                      games'[c][g].teams[t].players
                         = games[c][g].teams[t].players
      ]_vars

----------------------------------------------------------------------------
(* Scoring on the ring of the program.  The team board has RingSize slots *)
(* and the game is taken while it waits for the team's placement of the   *)
(* current draw; the filled slots of the board form at most two cyclic    *)
(* arcs, the second of at most MaxSecondRun slots.  The placement step    *)
(* fills one more slot and stores calculatePlayerScore of the new board.  *)

RingSize == 20
MaxSecondRun == 2

Arc(a, l) == {(a + k) % RingSize : k \in 0..(l - 1)}

Ring(S) == [i \in 1..RingSize |-> IF (i - 1) \in S THEN 1 ELSE Null]

ScoreBoards ==
    {Ring(Arc(a, la) \cup Arc(b, lb)) :
        a \in 0..(RingSize - 1), la \in 0..(RingSize - 1),
        b \in 0..(RingSize - 1), lb \in 0..MaxSecondRun}

FilledCount(board) == Cardinality({i \in 1..Len(board) : Filled(board, i)})

\* board turned by k slots around the ring
Rotated(board, k) ==
    [i \in 1..Len(board) |-> board[((i - 1 + k) % Len(board)) + 1]]

RingGame(board) ==
    [teams |-> <<[players |-> {1}, board |-> board,
                  score |-> calculatePlayerScore(board),
                  hasPlacedCurrentNumber |-> FALSE],
                 [players |-> {2}, board |-> Ring(Arc(0, 3)),
                  score |-> calculatePlayerScore(Ring(Arc(0, 3))),
                  hasPlacedCurrentNumber |-> TRUE]>>,
     usedNumbers |-> [k \in 1..(FilledCount(board) + 1) |-> 1],
     usedCardIndices |-> [k \in 1..(FilledCount(board) + 1) |-> k - 1],
     currentNumber |-> 1,
     gameStarted |-> TRUE,
     gameEnded |-> FALSE,
     waitingForPlacements |-> TRUE,
     currentRound |-> FilledCount(board) + 1,
     finalRanking |-> <<>>,
     creatorId |-> "ADMIN",
     createdAt |-> 0]

InitScore ==
    /\ \E board \in ScoreBoards :
          LET list == [n \in GameNames |->
                          IF n = "acme" THEN RingGame(board) ELSE NoGame]
          IN /\ store = list
             /\ games = [c \in Clients |-> list]
    /\ currentUser = [c \in Clients |-> "GUEST"]
    /\ session = [c \in Clients |->
                    IF c = 1
                    THEN [gameId |-> "acme", role |-> "PLAYER",
                          myTeamId |-> 1]
                    ELSE NoSession]
    /\ selectedGameId = [c \in Clients |-> NoName]
    /\ pendingSelection = [c \in Clients |-> Null]
    /\ now = 0
    /\ lag = [c \in Clients |-> 0]
    /\ staleWrites = 0
    /\ SyncOff
    /\ MembersLoaded
    /\ FirebaseLoaded

NextScore ==
    \E c \in Clients, p \in 0..(RingSize - 1) : PlaceNumber(c, p)

ScoreSpec == InitScore /\ [][NextScore]_vars

\* the team whose placement was just scored
ScoredTeam == store["acme"].teams[1]

Scored == ScoredTeam.hasPlacedCurrentNumber

\* the maximal cyclic runs of a board that is not full, as <<first, length>>
MaximalRuns(board) ==
    LET F == {i - 1 : i \in {j \in 1..Len(board) : Filled(board, j)}}
        n == Len(board)
    IN {r \in F \X (1..(n - 1)) :
          /\ ((r[1] + n - 1) % n) \notin F
          /\ ((r[1] + r[2]) % n) \notin F
          /\ \A k \in 0..(r[2] - 1) : ((r[1] + k) % n) \in F}

RECURSIVE SumOverRuns(_)
SumOverRuns(R) ==
    IF R = {} THEN 0
    ELSE LET r == CHOOSE x \in R : TRUE
         IN PointTable[r[2]] + SumOverRuns(R \ {r})

(* C25: a run of filled slots that goes through the boundary between the  *)
(* last slot and slot 0 is scored as one run: a board on which slots 18,  *)
(* 19, 0, 1 are a run (17 and 2 empty) gets the 5 points of one run of 4  *)
(* for it, and the score stored by a placement is the score of the board  *)
(* turned by any number of slots around the ring.                          *)

C25_WrapRunIsOneRun ==
    Scored =>
       LET b == ScoredTeam.board
           rest == [i \in 1..RingSize |->
                      IF i \in {19, 20, 1, 2} THEN Null ELSE b[i]]
       IN /\ \A k \in 0..(RingSize - 1) :
                calculatePlayerScore(Rotated(b, k)) = ScoredTeam.score
          /\ (/\ \A i \in {19, 20, 1, 2} : Filled(b, i)
              /\ ~Filled(b, 18)
              /\ ~Filled(b, 3)) =>
                ScoredTeam.score = 5 + calculatePlayerScore(rest)
          /\ b = Ring({18, 19, 0, 1}) => ScoredTeam.score = 5

C25_Witness ==
    /\ Scored
    /\ ScoredTeam.board = Ring({18, 19, 0, 1})

(* C26: the score stored by a placement is the sum of the table points of *)
(* the lengths of the maximal cyclic runs of the board, runs of length 1  *)
(* included; an empty board has score 0; a board whose runs are exactly   *)
(* one of length 3 and one of length 4 has score 8.                        *)

C26_ScoreIsSumOverRuns ==
    LET b == ScoredTeam.board
    IN /\ FilledCount(b) = 0 => ScoredTeam.score = 0
       /\ (Scored /\ FilledCount(b) < RingSize) =>
             /\ ScoredTeam.score = SumOverRuns(MaximalRuns(b))
             /\ {r[2] : r \in MaximalRuns(b)} = {3, 4}
                /\ Cardinality(MaximalRuns(b)) = 2
                   => ScoredTeam.score = 8

C26_Witness ==
    /\ Scored
    /\ Cardinality(MaximalRuns(ScoredTeam.board)) = 2
    /\ {r[2] : r \in MaximalRuns(ScoredTeam.board)} = {3, 4}
    /\ ScoredTeam.score = 8

(* C27: a board whose RingSize slots are all filled has score 300, the    *)
(* points of one run of length 20, whichever slot was filled last.        *)

C27_FullBoardScores300 ==
    (Scored /\ FilledCount(ScoredTeam.board) = RingSize) =>
       /\ ScoredTeam.score = 300
       /\ ScoredTeam.score = PointTable[RingSize]

C27_Witness ==
    /\ Scored
    /\ FilledCount(ScoredTeam.board) = RingSize
    /\ store["acme"].gameEnded

(* C28: the point table gives 0, 1, 3, 5, 7, 9, 11, 15, 20, 25, 30, 35,   *)
(* 40, 50, 60, 70, 85, 100, 150, 300 for the run lengths 1..20 and is     *)
(* strictly superlinear: for all a, b >= 1 with a + b <= 20 the points of *)
(* a + b exceed the points of a plus the points of b.                      *)

C28_TableSuperlinear ==
    /\ Len(PointTable) = RingSize
    /\ PointTable[1] = 0 /\ PointTable[2] = 1 /\ PointTable[3] = 3
    /\ PointTable[4] = 5 /\ PointTable[5] = 7 /\ PointTable[6] = 9
    /\ PointTable[7] = 11 /\ PointTable[8] = 15 /\ PointTable[9] = 20
    /\ PointTable[10] = 25 /\ PointTable[11] = 30 /\ PointTable[12] = 35
    /\ PointTable[13] = 40 /\ PointTable[14] = 50 /\ PointTable[15] = 60
    /\ PointTable[16] = 70 /\ PointTable[17] = 85 /\ PointTable[18] = 100
    /\ PointTable[19] = 150 /\ PointTable[20] = 300
    /\ \A a, b \in 1..RingSize :
          a + b <= RingSize =>
             PointTable[a + b] > PointTable[a] + PointTable[b]
    /\ Scored =>
          \A r \in MaximalRuns(ScoredTeam.board) :
             \A a \in 1..(r[2] - 1) :
                ScoredTeam.score >= PointTable[a] + PointTable[r[2] - a]

C28_Witness ==
    /\ Scored
    /\ MaximalRuns(ScoredTeam.board) = {<<3, 7>>}
    /\ ScoredTeam.score = 11
    /\ ScoredTeam.score > PointTable[3] + PointTable[4]

----------------------------------------------------------------------------
(* C29: echo suppression: when the sync effect of the games list runs, it *)
(* writes the list to the remote store if the pending change of the list  *)
(* was made locally, and does not write it if the list was received from  *)
(* the remote store, whatever callbacks and handlers ran in between.      *)

C29_EchoSuppression ==
    [][\A c \in Clients :
          gamesSyncEffect(c) =>
             (SavesToFirebase(c) <=> pendingEffect[c]["games"] = "local")
      ]_vars

(* C30: a client that has not yet received its first snapshot of the      *)
(* remote games list does not change the remote list: neither its first   *)
(* render nor a sync effect that runs before the first snapshot writes    *)
(* its initial local list.                                                 *)

C30_NoWriteBeforeFirstSnapshot ==
    [][\A c \in Clients :
          ((Mount(c) \/ gamesSyncEffect(c)) /\ subscription'[c] # "live") =>
             store' = store
      ]_vars

----------------------------------------------------------------------------
(* Replication of the games list in the Firebase build.  Both clients are *)
(* subscribed and hold the remote list; the games were created at time 0  *)
(* or DeleteAfter - 1 days before it, so that the timer check of one      *)
(* client can empty the list.                                              *)

CreatedAt(list, t) ==
    [n \in GameNames |->
        IF list[n] = NoGame THEN NoGame
        ELSE [list[n] EXCEPT !.createdAt = t[n]]]

InitReplica ==
    /\ \E score \in MockScores :
          \E t \in [GameNames -> {0, 1 - DeleteAfter}] :
             LET list == checkGames(CreatedAt(RemoteGames(score), t), 0)
             IN /\ store = list
                /\ games = [c \in Clients |-> FirebaseVal(list)]
    /\ currentUser = [c \in Clients |-> "GUEST"]
    /\ session = [c \in Clients |-> NoSession]
    /\ selectedGameId = [c \in Clients |-> NoName]
    /\ pendingSelection = [c \in Clients |-> Null]
    /\ now = 0
    /\ lag = [c \in Clients |-> 0]
    /\ staleWrites = 0
    /\ subscription = [c \in Clients |-> "live"]
    /\ isFirebaseUpdate = [c \in Clients |-> FALSE]
    /\ pendingEffect = [c \in Clients |-> NoEffect]
    /\ MembersLoaded
    /\ FirebaseLoaded

\* the timer of checkGames: setGames(prevGames => ...) stores the new
\* array that map and filter build, changed or not; the sync effect has
\* not run yet
CheckGamesLocal(c) ==
    /\ subscription[c] # "none"
    /\ games' = [games EXCEPT ![c] = checkGames(games[c], now)]
    /\ pendingEffect' = [pendingEffect EXCEPT ![c]["games"] = "local"]
    /\ UNCHANGED <<store, currentUser, session, selectedGameId,
                   pendingSelection, now, lag, staleWrites, subscription,
                   isFirebaseUpdate>>
    /\ UNCHANGED memberVars
    /\ UNCHANGED firebaseVars

NextReplica ==
    \/ Tick
    \/ \E c \in Clients : CheckGamesLocal(c)
    \/ \E c \in Clients, g \in GameNames, t \in 1..2 : JoinTeamLocal(c, g, t)
    \/ \E c \in Clients : gamesSyncEffect(c)
    \/ \E c \in Clients : subscribeToGames(c)

ReplicaSpec == InitReplica /\ [][NextReplica]_vars

(* C31: when the callback of the games listener runs on a client that has *)
(* no local change pending, the client's games list becomes the remote    *)
(* list, also when the remote list has no game.                            *)

C31_ReplicaConverges ==
    [][\A c \in Clients :
          (subscribeToGames(c) /\ pendingEffect[c]["games"] # "local") =>
             games'[c] = FirebaseVal(store')
      ]_vars

----------------------------------------------------------------------------
(* C32: in every state, for every game of every client's list and of the  *)
(* shared list, the round counter equals the number of drawn card indices *)
(* and the number of drawn values.                                         *)

C32_RoundEqualsDraws ==
    \A g \in GameNames :
        /\ Present(store, g) =>
              /\ store[g].currentRound = Len(store[g].usedCardIndices)
              /\ store[g].currentRound = Len(store[g].usedNumbers)
        /\ \A c \in Clients :
              Present(games[c], g) =>
                 /\ games[c][g].currentRound = Len(games[c][g].usedCardIndices)
                 /\ games[c][g].currentRound = Len(games[c][g].usedNumbers)

----------------------------------------------------------------------------
(* C33: a placement is accepted only while the game the client reads is   *)
(* waiting for placements and only for a team with at least one member,   *)
(* and after it the team's board has no more filled slots than the round  *)
(* counter says.                                                           *)

C33_PlacementOnlyInWindow ==
    [][\A c \in Clients, p \in 0..(BoardSize - 1) :
          PlaceNumber(c, p) =>
             LET old == activeGame(c)
                 t == session[c].myTeamId
                 new == games'[c][MyGame(c)]
             IN /\ old.waitingForPlacements
                /\ old.teams[t].players # {}
                /\ FilledCount(new.teams[t].board) <= new.currentRound
      ]_vars

----------------------------------------------------------------------------
(* C34: in every game a client holds that is started and not ended, the   *)
(* game is waiting for placements exactly when it has a current draw and  *)
(* some team with a member has not placed; a game that is not started or  *)
(* is ended is never waiting for placements.                               *)

C34_WaitingIffUnplaced ==
    \A c \in Clients, g \in GameNames :
        Present(games[c], g) =>
           LET game == games[c][g]
           IN IF Phase(game) = "ACTIVE"
              THEN game.waitingForPlacements <=>
                      /\ game.currentNumber # Null
                      /\ \E t \in ActiveTeams(game) :
                            ~game.teams[t].hasPlacedCurrentNumber
              ELSE ~game.waitingForPlacements

----------------------------------------------------------------------------
(* C35: no round gets stuck: in every game a client holds that is waiting *)
(* for placements, every team with a member that has not placed has an    *)
(* empty slot and its placement on an empty slot is accepted; and no game *)
(* has more draws than the round maximum.                                  *)

C35_NoStuckRound ==
    \A c \in Clients, g \in GameNames :
        Present(games[c], g) =>
           LET game == games[c][g]
           IN /\ Len(game.usedCardIndices) <= RoundLimit(game)
              /\ (game.waitingForPlacements /\ Phase(game) = "ACTIVE") =>
                    \A t \in ActiveTeams(game) :
                       ~game.teams[t].hasPlacedCurrentNumber =>
                          /\ ~BoardFull(game.teams[t].board)
                          /\ \A p \in 0..(BoardSize - 1) :
                                game.teams[t].board[p + 1] = Null =>
                                   placeNumberInTeam(game, t, p).outcome
                                      = "ok"

----------------------------------------------------------------------------
(* C36: a team's score never decreases: every accepted placement leaves   *)
(* the placing team's score at least what it was before, and leaves the   *)
(* score and the board of every other team of the game as they were.      *)

C36_ScoreNeverDecreases ==
    [][\A c \in Clients, p \in 0..(RingSize - 1) :
          PlaceNumber(c, p) =>
             LET g == session[c].gameId
                 t == session[c].myTeamId
                 old == games[c][g]
                 new == games'[c][g]
             IN /\ new.teams[t].score >= old.teams[t].score
                /\ \A u \in (1..Len(old.teams)) \ {t} :
                      /\ new.teams[u].score = old.teams[u].score
                      /\ new.teams[u].board = old.teams[u].board]_vars

\* two runs of 3 and 2 joined into one run of 6 beside an untouched team
C36_Witness ==
    /\ Scored
    /\ MaximalRuns(ScoredTeam.board) = {<<5, 6>>}
    /\ ScoredTeam.score = PointTable[6]
    /\ store["acme"].teams[2].score = PointTable[3]
    /\ store["acme"].teams[2].board = Ring(Arc(0, 3))

----------------------------------------------------------------------------
(* C37: automatic expiry: a periodic check removes from the client's list *)
(* every game whose age is at least DeleteAfter (168 hours), marks ended  *)
(* every other game whose age is at least EndAfter (24 hours) and changes *)
(* no other field of it, and leaves every younger game exactly as it was; *)
(* it adds no game.                                                        *)

C37_AutomaticExpiry ==
    [][\A c \in Clients :
          CheckGamesLocal(c) =>
             \A n \in GameNames :
                IF ~Present(games[c], n)
                THEN ~Present(games'[c], n)
                ELSE LET game == games[c][n]
                         age == now - game.createdAt
                     IN /\ age >= DeleteAfter => ~Present(games'[c], n)
                        /\ (age >= EndAfter /\ age < DeleteAfter) =>
                              /\ Present(games'[c], n)
                              /\ games'[c][n].gameEnded
                              /\ games'[c][n]
                                    = [game EXCEPT !.gameEnded = TRUE]
                        /\ age < EndAfter => games'[c][n] = game]_vars

\* one check has removed a game of seven days and ended a game of one day
\* that was running; the remote list still holds both as they were
C37_Witness ==
    \E c \in Clients :
       /\ pendingEffect[c]["games"] = "local"
       /\ now - store["coke"].createdAt >= DeleteAfter
       /\ ~Present(games[c], "coke")
       /\ now - store["samsung"].createdAt = EndAfter
       /\ ~store["samsung"].gameEnded
       /\ games[c]["samsung"].gameEnded

----------------------------------------------------------------------------
(* Members: login of a member, the admin's changes of the members list,   *)
(* delivery of the shared list, and the security effect                    *)

MustLogOut_OnlyDeleted(role, id, list) ==
    /\ role = "MEMBER"
    /\ list[id] = NoMember

\* the test of the security effect: the record is missing or suspended
MustLogOut(role, id, list) ==
    /\ role = "MEMBER"
    /\ \/ list[id] = NoMember
       \/ list[id] = "SUSPENDED"

\* handleLogout: setCurrentUser(GUEST) and setSession(cleared); HostView
\* is unmounted with the session
handleLogout(c) ==
    /\ currentUser' = [currentUser EXCEPT ![c] = "GUEST"]
    /\ memberId' = [memberId EXCEPT ![c] = NoName]
    /\ session' = [session EXCEPT ![c] = NoSession]
    /\ pendingSelection' = [pendingSelection EXCEPT
          ![c] = KeepPending(c, games[c], NoSession)]

\* useEffect [members, currentUser]: runs after the render in which the
\* members list of client c became `list` and its user (role, id)
securityEffect(c, role, id, list) ==
    IF MustLogOut(role, id, list)
    THEN handleLogout(c)
    ELSE /\ currentUser' = [currentUser EXCEPT ![c] = role]
         /\ memberId' = [memberId EXCEPT ![c] = id]
         /\ UNCHANGED <<session, pendingSelection>>

\* the members list a device holds in its cache or has written remotely
InitMember ==
    /\ store = INITIAL_GAMES(CHOOSE s \in MockScores : TRUE)
    /\ games = [c \in Clients |-> store]
    /\ currentUser = [c \in Clients |-> "GUEST"]
    /\ session = [c \in Clients |-> NoSession]
    /\ selectedGameId = [c \in Clients |-> NoName]
    /\ pendingSelection = [c \in Clients |-> Null]
    /\ now = 0
    /\ lag = [c \in Clients |-> 0]
    /\ staleWrites = 0
    /\ SyncOff
    /\ memberStore \in [MemberIds -> MemberStatus \cup {NoMember}]
    /\ \E cached \in [MemberIds -> {"ACTIVE", NoMember}] :
          members = [c \in Clients |-> cached]
    /\ memberId = [c \in Clients |-> NoName]
    /\ FirebaseLoaded

completeMemberLogin(c, m) ==
    /\ InLobby(c)
    /\ currentUser[c] = "GUEST"
    /\ members[c][m] # NoMember
    /\ members[c][m] # "SUSPENDED"
    /\ securityEffect(c, "MEMBER", m, members[c])
    /\ UNCHANGED <<store, games, selectedGameId, now, lag, staleWrites,
                   memberStore, members>>
    /\ UNCHANGED syncVars
    /\ UNCHANGED firebaseVars

\* setMembers(prev => prev.filter(...)), the effect that saves the list,
\* and the security effect of the admin's own client
deleteMember(c, m) ==
    /\ currentUser[c] = "ADMIN"
    /\ members[c][m] # NoMember
    /\ members' = [members EXCEPT ![c][m] = NoMember]
    /\ memberStore' = [members[c] EXCEPT ![m] = NoMember]
    /\ securityEffect(c, currentUser[c], memberId[c], members'[c])
    /\ UNCHANGED <<store, games, selectedGameId, now, lag, staleWrites>>
    /\ UNCHANGED syncVars
    /\ UNCHANGED firebaseVars

\* the id mem_<Date.now()> is one that no list and no session holds
registerMember(c, m) ==
    /\ currentUser[c] = "ADMIN"
    /\ memberStore[m] = NoMember
    /\ \A d \in Clients : members[d][m] = NoMember /\ memberId[d] # m
    /\ members' = [members EXCEPT ![c][m] = "ACTIVE"]
    /\ memberStore' = [members[c] EXCEPT ![m] = "ACTIVE"]
    /\ securityEffect(c, currentUser[c], memberId[c], members'[c])
    /\ UNCHANGED <<store, games, selectedGameId, now, lag, staleWrites>>
    /\ UNCHANGED syncVars
    /\ UNCHANGED firebaseVars

\* the storage event of key MEMBERS, or the listener of the remote
\* members node: setMembers(newMembers), then the security effect
ReceiveMembers(c) ==
    /\ members[c] # memberStore
    /\ members' = [members EXCEPT ![c] = memberStore]
    /\ securityEffect(c, currentUser[c], memberId[c], memberStore)
    /\ UNCHANGED <<store, games, selectedGameId, now, lag, staleWrites,
                   memberStore>>
    /\ UNCHANGED syncVars
    /\ UNCHANGED firebaseVars

NextMember ==
    \/ \E c \in Clients : Login(c)
    \/ \E c \in Clients, m \in MemberIds : completeMemberLogin(c, m)
    \/ \E c \in Clients, m \in MemberIds : deleteMember(c, m)
    \/ \E c \in Clients, m \in MemberIds : registerMember(c, m)
    \/ \E c \in Clients : ReceiveMembers(c)
    \/ \E c \in Clients, n \in NewNames, k \in TeamCounts :
          CreateCompanyGame(c, n, k)
    \/ \E c \in Clients : Receive(c)

MemberSpec == InitMember /\ [][NextMember]_vars

(* C38: whenever a step changes the members list or the user of a client  *)
(* and leaves a MEMBER whose record is missing from the client's members  *)
(* list or is SUSPENDED there, the client is logged out by that step: its *)
(* user is GUEST and its game session is cleared.  So no client is ever   *)
(* logged in as a member without an active record in its own list.        *)

C38_MemberKickedOut ==
    [][\A c \in Clients :
          /\ (/\ currentUser[c] = "MEMBER"
              /\ members'[c] # members[c]
              /\ \/ members'[c][memberId[c]] = NoMember
                 \/ members'[c][memberId[c]] = "SUSPENDED")
             => /\ currentUser'[c] = "GUEST"
                /\ session'[c] = NoSession
          /\ currentUser'[c] = "MEMBER" =>
                members'[c][memberId'[c]] = "ACTIVE"]_vars

\* the member who created the game acme has been logged out on the client
\* that received the list in which the member's record is suspended
C38_Witness ==
    \E c \in Clients :
       /\ Present(games[c], "acme")
       /\ games[c]["acme"].creatorId = "mem_1"
       /\ members[c]["mem_1"] = "SUSPENDED"
       /\ \A d \in Clients \ {c} :
             currentUser[d] # "MEMBER" /\ members[d]["mem_1"] = "ACTIVE"
       /\ currentUser[c] = "GUEST"
       /\ session[c] = NoSession

----------------------------------------------------------------------------
(* The Firebase module with guarded initialization: every function tests  *)
(* the reference of its node before it uses it                             *)

\* the try block of the initialization has run to its end
firebaseInitialized(c) == database[c] = "live"

\* the key of firebaseConfig, shortened
apiKey == "AIza"

isFirebaseConfigured(c) ==
    firebaseInitialized(c) /\ apiKey # "YOUR_API_KEY"

\* getGamesRef: database ? ref(database, 'games') : null
getGamesRef(c) == IF database[c] = "live" THEN "games" ELSE "null"

\* initializeApp or getDatabase has thrown on some clients; the remote
\* list and the lists the clients hold are those of InitSync
InitFirebase ==
    /\ \E score \in MockScores :
          \E local \in LocalGames(score) :
             /\ store = RemoteGames(score)
             /\ games = [c \in Clients |-> local]
    /\ currentUser = [c \in Clients |-> "GUEST"]
    /\ session = [c \in Clients |-> NoSession]
    /\ selectedGameId = [c \in Clients |-> NoName]
    /\ pendingSelection = [c \in Clients |-> Null]
    /\ now = 0
    /\ lag = [c \in Clients |-> 0]
    /\ staleWrites = 0
    /\ SyncOff
    /\ MembersLoaded
    /\ database \in [Clients -> {"live", "null"}]
    /\ lastCall = [c \in Clients |-> NoCall]

subscribeToGamesCall_NoRefTest(c) ==
    /\ subscription[c] = "none"
    /\ IF getGamesRef(c) = "null"
       THEN /\ lastCall' = [lastCall EXCEPT ![c] =
                  [NoCall EXCEPT !.call = "subscribeToGames",
                                 !.outcome = "thrown"]]
            /\ UNCHANGED subscription
       ELSE /\ subscription' = [subscription EXCEPT ![c] = "live"]
            /\ lastCall' = [lastCall EXCEPT ![c] =
                  [NoCall EXCEPT !.call = "subscribeToGames",
                                 !.unsubscribe = "detach"]]
    /\ UNCHANGED <<store, games, currentUser, session, selectedGameId,
                   pendingSelection, now, lag, staleWrites, isFirebaseUpdate,
                   pendingEffect, database>>
    /\ UNCHANGED memberVars

\* subscribeToGames(callback): without a reference it returns () => {},
\* else it attaches the listener and returns what onValue returns
subscribeToGamesCall(c) ==
    /\ subscription[c] = "none"
    /\ IF getGamesRef(c) = "null"
       THEN /\ lastCall' = [lastCall EXCEPT ![c] =
                  [NoCall EXCEPT !.call = "subscribeToGames",
                                 !.unsubscribe = "noop"]]
            /\ UNCHANGED subscription
       ELSE /\ subscription' = [subscription EXCEPT ![c] = "live"]
            /\ lastCall' = [lastCall EXCEPT ![c] =
                  [NoCall EXCEPT !.call = "subscribeToGames",
                                 !.unsubscribe = "detach"]]
    /\ UNCHANGED <<store, games, currentUser, session, selectedGameId,
                   pendingSelection, now, lag, staleWrites, isFirebaseUpdate,
                   pendingEffect, database>>
    /\ UNCHANGED memberVars

\* the listener that onValue attached: a snapshot gives callback(data) or
\* callback([]), an error of the remote read is only logged
onValueListener(c, fails) ==
    /\ subscription[c] = "live"
    /\ lastCall' = [lastCall EXCEPT ![c] =
          IF fails
          THEN [NoCall EXCEPT !.call = "onValue error"]
          ELSE [NoCall EXCEPT !.call = "callback",
                              !.value = FirebaseVal(store)]]
    /\ UNCHANGED <<store, games, currentUser, session, selectedGameId,
                   pendingSelection, now, lag, staleWrites, database>>
    /\ UNCHANGED syncVars
    /\ UNCHANGED memberVars

\* saveGames(games): returns without a reference; set(gamesRef, games) in
\* try/catch
saveGamesCall(c, list, fails) ==
    /\ IF getGamesRef(c) = "null" \/ fails
       THEN /\ UNCHANGED <<store, lag>>
            /\ lastCall' = [lastCall EXCEPT ![c] =
                  [NoCall EXCEPT !.call = "saveGames"]]
       ELSE /\ saveGames(c, list)
            /\ lastCall' = [lastCall EXCEPT ![c] =
                  [NoCall EXCEPT !.call = "saveGames", !.wrote = TRUE]]
    /\ UNCHANGED <<games, currentUser, session, selectedGameId,
                   pendingSelection, now, staleWrites, database>>
    /\ UNCHANGED syncVars
    /\ UNCHANGED memberVars

\* getGames(): [] without a reference or when get fails, else
\* snapshot.val() || []
getGamesCall(c, fails) ==
    /\ lastCall' = [lastCall EXCEPT ![c] =
          IF getGamesRef(c) = "null" \/ fails
          THEN [NoCall EXCEPT !.call = "getGames"]
          ELSE [NoCall EXCEPT !.call = "getGames",
                              !.value = FirebaseVal(store)]]
    /\ UNCHANGED <<store, games, currentUser, session, selectedGameId,
                   pendingSelection, now, lag, staleWrites, database>>
    /\ UNCHANGED syncVars
    /\ UNCHANGED memberVars

NextFirebase ==
    \/ \E c \in Clients : subscribeToGamesCall(c)
    \/ \E c \in Clients, fails \in BOOLEAN : onValueListener(c, fails)
    \/ \E c \in Clients, fails \in BOOLEAN :
          saveGamesCall(c, games[c], fails)
    \/ \E c \in Clients, fails \in BOOLEAN : getGamesCall(c, fails)

FirebaseSpec == InitFirebase /\ [][NextFirebase]_vars

(* C39: on a client where Firebase failed to initialize,                  *)
(* isFirebaseConfigured is false, a subscribe call returns a no-op        *)
(* unsubscribe and attaches no listener, so that the callback is never    *)
(* invoked, a save call writes nothing, and a get call returns the empty  *)
(* list; and on every client no call ends by throwing, also when the      *)
(* remote write or read fails.                                             *)

C39_GuardedFirebase ==
    [][\A c \in Clients :
          /\ lastCall'[c].outcome = "returned"
          /\ database[c] = "null" =>
                /\ ~isFirebaseConfigured(c)
                /\ subscription'[c] = "none"
                /\ lastCall'[c].call \notin {"callback", "onValue error"}
                /\ lastCall'[c].call = "subscribeToGames" =>
                      lastCall'[c].unsubscribe = "noop"
                /\ lastCall'[c].call = "saveGames" =>
                      ~lastCall'[c].wrote
                /\ lastCall'[c].call = "getGames" =>
                      lastCall'[c].value = EmptyList
                /\ lastCall'[c] # lastCall[c] => store' = store]_vars

\* a client without a database has been given the empty list by getGames
\* while the remote list holds games, after the other client has saved its
\* list
C39_Witness ==
    \E c, d \in Clients :
       /\ database[c] = "null"
       /\ lastCall[c].call = "getGames"
       /\ lastCall[c].value = EmptyList
       /\ store # EmptyList
       /\ database[d] = "live"
       /\ lastCall[d].call = "saveGames"
       /\ lastCall[d].wrote

====
